---- MODULE Spec2Model ----
(***************************************************************************)
(* A model of the js.rs tree-walking evaluator (src/eval/mod.rs) and its   *)
(* error type (src/js_error.rs).                                           *)
(*                                                                         *)
(* eval_stmt and eval_exp are recursive operators over the AST that thread *)
(* the shared ScopeManager (the store) through the evaluation, exactly in  *)
(* the order the Rust code touches it.  An evaluation ends in one of three *)
(* ways: "Ok" (the Rust Ok(..)), "Err" (the Rust Err(JsError::..)) or      *)
(* "Panic" (expect/unwrap/unimplemented!: the process aborts).             *)
(*                                                                         *)
(* The state machine is a host that calls eval_stmt / eval_string again    *)
(* and again on one shared store.                                          *)
(***************************************************************************)
EXTENDS Integers, Sequences, FiniteSets, TLC

VARIABLES
    state,    \* the shared ScopeManager (Rc<RefCell<ScopeManager>>)
    pre,      \* the store as it was when the last evaluation started
    last,     \* the last evaluation: its statement, entry point and result
    steps,    \* number of evaluations done so far
    halted    \* TRUE once a panic has aborted the process

vars == <<state, pre, last, steps, halted>>

----------------------------------------------------------------------------
(* Bounds of the model *)

MaxSteps == 3      \* evaluations per run of the host
MaxHeap == 2       \* Init tries every heap capacity 0..MaxHeap
MaxIter == 3       \* loop iterations evaluated before the model gives up
BigHeap == 40      \* a heap capacity no run of the model exhausts

----------------------------------------------------------------------------
(* Values: JsVar, JsType, JsPtrEnum, Binding *)

\* Binding::new(name)
Binding(name) == [name |-> name, anon |-> 0]

\* Binding::anon(): a generated name no source name collides with
AnonBinding(u) == [name |-> "", anon |-> u]

\* JsType: inline scalars and the pointer tags
JsNum(n) == [tag |-> "JsNum", num |-> n, fname |-> ""]
JsNaN == [tag |-> "JsNaN", num |-> 0, fname |-> ""]
JsBool(b) == [tag |-> "JsBool", num |-> IF b THEN 1 ELSE 0, fname |-> ""]
JsUndef == [tag |-> "JsUndef", num |-> 0, fname |-> ""]
JsNull == [tag |-> "JsNull", num |-> 0, fname |-> ""]
\* JsPtr(JsPtrTag::JsFn { name }), name "" standing for None
JsPtrFn(name) == [tag |-> "JsPtrFn", num |-> 0, fname |-> name]
JsPtrStr == [tag |-> "JsPtrStr", num |-> 0, fname |-> ""]
JsPtrObj == [tag |-> "JsPtrObj", num |-> 0, fname |-> ""]
JsPtrNative == [tag |-> "JsPtrNative", num |-> 0, fname |-> ""]

IsPtr(t) == t.tag \in {"JsPtrFn", "JsPtrStr", "JsPtrObj", "JsPtrNative"}

\* Option<JsPtrEnum>
NoPtr == [k |-> "None"]
JsFnStruct(name, params, stmt) ==
    [k |-> "JsFn", name |-> name, params |-> params, stmt |-> stmt]
JsStrStruct(s) == [k |-> "JsStr", s |-> s]
JsObjStruct(dict) == [k |-> "JsObj", dict |-> dict]
\* JsPtrEnum::NativeFn(func): a callable of the host
NativeFn == [k |-> "NativeFn"]

\* Option<JsVarValue>: the return signal
NoRet == [some |-> FALSE]
SomeRet(v) == [some |-> TRUE, v |-> v]

\* the six variants of JsError
ParseError == "ParseError"
GcError == "GcError"
TypeError == "TypeError"
ReferenceError == "ReferenceError"
JsVarError == "JsVar"
UnimplementedError == "UnimplementedError"

JsErrorKinds ==
    {ParseError, GcError, TypeError, ReferenceError, JsVarError,
     UnimplementedError}

----------------------------------------------------------------------------
(* The evaluation context: the store plus the ghost log of one evaluation *)

Emit(st, e) == [st EXCEPT !.log = Append(@, e)]

\* JsVar::new(t): an anonymous variable with a unique identity of its own
JsVarNew(st, t) ==
    [var |-> [binding |-> AnonBinding(st.next), unique |-> st.next, t |-> t],
     st |-> [st EXCEPT !.next = @ + 1]]

\* JsVar::bind(name, t)
JsVarBind(st, name, t) ==
    [var |-> [binding |-> Binding(name), unique |-> st.next, t |-> t],
     st |-> [st EXCEPT !.next = @ + 1]]

\* JsVar::deanonymize(name): only an anonymous variable takes the name and,
\* with it, a new identity
Deanonymize(st, v, name) ==
    IF v.binding.anon # 0
    THEN [var |-> [v EXCEPT !.binding = Binding(name), !.unique = st.next],
          st |-> [st EXCEPT !.next = @ + 1]]
    ELSE [var |-> v, st |-> st]

\* AsBool for JsVar
AsBool(v) ==
    CASE v.t.tag = "JsNum" -> v.t.num # 0
      [] v.t.tag = "JsBool" -> v.t.num = 1
      [] v.t.tag \in {"JsUndef", "JsNull", "JsNaN"} -> FALSE
      [] OTHER -> TRUE

----------------------------------------------------------------------------
(* The store: french_press::ScopeManager, seen through the operations the  *)
(* evaluator calls.  A scope is a frame of slots keyed by binding; the     *)
(* scope chain is the stack of frames, innermost last.  closures maps the  *)
(* identities the store was told to retain to the frame they captured.     *)

\* a JsVar standing where the Rust code has none
NoVar == [binding |-> [name |-> "", anon |-> 0], unique |-> 0, t |-> JsUndef]

EmptyFrame == [b \in {} |-> [var |-> NoVar, ptr |-> NoPtr]]

Slot(var, ptr) == [var |-> var, ptr |-> ptr]

\* a ghost record of one call of a store operation
StoreEvent(op, ok, id) == [ev |-> "store", name |-> op, ok |-> ok, id |-> id]

\* state.deref().borrow() / borrow_mut(): a view of the RefCell is taken,
\* and dropped again with the temporary that holds it; every call of a
\* store operation below is wrapped in the view the Rust statement takes
BorrowEvent(kind) == [ev |-> "borrow", name |-> kind, ok |-> TRUE, id |-> 0]

ReleaseEvent == [ev |-> "release", name |-> "", ok |-> TRUE, id |-> 0]

borrow(st) == Emit(st, BorrowEvent("borrow"))

borrow_mut(st) == Emit(st, BorrowEvent("borrow_mut"))

Release(r) == [r EXCEPT !.st = Emit(@, ReleaseEvent)]

\* index of the innermost frame that binds b, 0 when none does
RECURSIVE FindFrame(_, _, _)
FindFrame(scopes, b, i) ==
    IF i = 0 THEN 0
    ELSE IF b \in DOMAIN scopes[i] THEN i
    ELSE FindFrame(scopes, b, i - 1)

\* ScopeManager::load(binding)
Load(st, b) ==
    LET i == FindFrame(st.scopes, b, Len(st.scopes))
    IN IF i = 0
       THEN [ok |-> FALSE, var |-> NoVar, ptr |-> NoPtr,
             st |-> Emit(st, StoreEvent("load", FALSE, 0))]
       ELSE [ok |-> TRUE, var |-> st.scopes[i][b].var,
             ptr |-> st.scopes[i][b].ptr,
             st |-> Emit(st, StoreEvent("load", TRUE, 0))]

\* ScopeManager::store(var, ptr): overwrite the slot of var's binding
StoreVar(st, var, ptr) ==
    LET i == FindFrame(st.scopes, var.binding, Len(st.scopes))
    IN IF i = 0
       THEN [ok |-> FALSE, st |-> Emit(st, StoreEvent("store", FALSE, 0))]
       ELSE [ok |-> TRUE,
             st |-> Emit([st EXCEPT !.scopes[i][var.binding] = Slot(var, ptr)],
                         StoreEvent("store", TRUE, 0))]

\* ScopeManager::alloc(var, ptr): a new slot in the current scope; fails
\* when the heap is full
Alloc(st, var, ptr) ==
    IF st.heapFree = 0
    THEN [ok |-> FALSE, st |-> Emit(st, StoreEvent("alloc", FALSE, 0))]
    ELSE LET top == Len(st.scopes)
             frame == (var.binding :> Slot(var, ptr)) @@ st.scopes[top]
         IN [ok |-> TRUE,
             st |-> Emit([st EXCEPT !.scopes[top] = frame,
                                    !.heapFree = @ - 1],
                         StoreEvent("alloc", TRUE, 0))]

\* ScopeManager::push_scope(exp): returns nothing, cannot fail
PushScope(st) ==
    Emit([st EXCEPT !.scopes = Append(@, EmptyFrame)],
         StoreEvent("push_scope", TRUE, 0))

\* ScopeManager::push_closure_scope(unique): the new scope starts from the
\* frame retained for that identity; an identity the store retained
\* nothing for is a failure
PushClosureScope(st, u) ==
    IF u \in DOMAIN st.closures
    THEN [ok |-> TRUE,
          st |-> Emit([st EXCEPT !.scopes = Append(@, st.closures[u])],
                      StoreEvent("push_closure_scope", TRUE, u))]
    ELSE [ok |-> FALSE,
          st |-> Emit(st, StoreEvent("push_closure_scope", FALSE, u))]

\* ScopeManager::pop_scope(returning_closure, gc_yield): retained is 0 for
\* None; the global scope cannot be popped
PopScope(st, retained, gcYield) ==
    LET n == Len(st.scopes)
        ev == [ev |-> "pop_scope", name |-> IF gcYield THEN "yield" ELSE "",
               ok |-> n > 1, id |-> retained]
    IN IF n <= 1
       THEN [ok |-> FALSE, st |-> Emit(st, ev)]
       ELSE [ok |-> TRUE,
             st |-> Emit([st EXCEPT
                            !.scopes = SubSeq(@, 1, n - 1),
                            !.closures =
                               IF retained = 0 THEN @
                               ELSE (retained :> st.scopes[n]) @@ @],
                         ev)]

\* ScopeManager::rename_closure(old, new): move what was retained for old
\* to new; reports whether there was anything to move
RenameClosure(st, old, new) ==
    IF old \in DOMAIN st.closures
    THEN [ok |-> TRUE,
          st |-> Emit([st EXCEPT !.closures =
                          (new :> st.closures[old]) @@
                          [u \in (DOMAIN @) \ {old} |-> @[u]]],
                      StoreEvent("rename_closure", TRUE, old))]
    ELSE [ok |-> FALSE,
          st |-> Emit(st, StoreEvent("rename_closure", FALSE, old))]

----------------------------------------------------------------------------
(* Results of an evaluation *)

Pair(var, ptr) == [var |-> var, ptr |-> ptr]

NoValue == Pair(NoVar, NoPtr)

\* Ok((value, return signal))
Ok(st, val, ret) ==
    [out |-> "Ok", err |-> "", val |-> val, ret |-> ret, st |-> st]

\* Err(JsError::kind(..)); val is the payload of JsError::JsVar
Err(st, kind, val) ==
    [out |-> "Err", err |-> kind, val |-> val, ret |-> NoRet, st |-> st]

\* expect / unwrap / unimplemented!: the thread panics
Panic(st, why) ==
    [out |-> "Panic", err |-> why, val |-> NoValue, ret |-> NoRet, st |-> st]

\* the model's loop bound was reached: the Rust loop is still running
Diverge(st) ==
    [out |-> "Diverge", err |-> "", val |-> NoValue, ret |-> NoRet, st |-> st]

\* Result::expect / Result::unwrap: an Err becomes a panic
Expect(r, why) == IF r.out = "Err" THEN Panic(r.st, why) ELSE r

\* var::scalar(t): (JsVar::new(t), None)
Scalar(st, t) ==
    LET n == JsVarNew(st, t) IN [val |-> Pair(n.var, NoPtr), st |-> n.st]

OkScalar(st, t) ==
    LET s == Scalar(st, t) IN Ok(s.st, s.val, NoRet)

\* AsNumber for JsVar, as a JsType (JsNaN for not-a-number)
AsNumber(v) ==
    CASE v.t.tag \in {"JsNum", "JsBool"} -> JsNum(v.t.num)
      [] v.t.tag = "JsNull" -> JsNum(0)
      [] OTHER -> JsNaN

NegNumber(t) == IF t.tag = "JsNum" THEN JsNum(0 - t.num) ELSE JsNaN

\* number::eval_binop(op, val1, val2), for the operators the model uses
eval_binop(op, val1, val2) ==
    LET a == AsNumber(val1)
        b == AsNumber(val2)
    IN IF a.tag = "JsNaN" \/ b.tag = "JsNaN" THEN JsNaN
       ELSE CASE op = "Plus" -> JsNum(a.num + b.num)
              [] op = "Minus" -> JsNum(a.num - b.num)
              [] op = "Star" -> JsNum(a.num * b.num)
              [] op = "Lt" -> JsBool(a.num < b.num)
              [] OTHER -> JsNaN

\* JsVar::type_of()
TypeOfVar(v) ==
    CASE v.t.tag \in {"JsNum", "JsNaN"} -> "number"
      [] v.t.tag = "JsBool" -> "boolean"
      [] v.t.tag = "JsUndef" -> "undefined"
      [] v.t.tag = "JsPtrFn" -> "function"
      [] v.t.tag = "JsPtrStr" -> "string"
      [] OTHER -> "object"

\* unescape::unescape(s): None (valid FALSE) for a bad escape sequence
Unescape(s) ==
    CASE s = "a\\tb" -> [valid |-> TRUE, s |-> "a\tb"]
      [] s = "\\q" -> [valid |-> FALSE, s |-> ""]
      [] OTHER -> [valid |-> TRUE, s |-> s]

----------------------------------------------------------------------------
(* The AST: jsrs_common::ast::Exp and Stmt, as the evaluator matches them *)

Float(n) == [k |-> "Float", n |-> n]
Bool(b) == [k |-> "Bool", b |-> b]
Null == [k |-> "Null"]
Undefined == [k |-> "Undefined"]
Str(s) == [k |-> "Str", s |-> s]
Var(name) == [k |-> "Var", name |-> name]
BinExp(e1, op, e2) == [k |-> "BinExp", e1 |-> e1, op |-> op, e2 |-> e2]
Call(f, args) == [k |-> "Call", f |-> f, args |-> args]
\* name "" stands for None
Defun(name, params, body) ==
    [k |-> "Defun", name |-> name, params |-> params, body |-> body]
InstanceVar(e, name) == [k |-> "InstanceVar", e |-> e, name |-> name]
Neg(e) == [k |-> "Neg", e |-> e]
Pos(e) == [k |-> "Pos", e |-> e]
PostDec(e) == [k |-> "PostDec", e |-> e]
PostInc(e) == [k |-> "PostInc", e |-> e]
PreDec(e) == [k |-> "PreDec", e |-> e]
PreInc(e) == [k |-> "PreInc", e |-> e]
NewObject(e, args) == [k |-> "NewObject", e |-> e, args |-> args]
\* fields: a sequence of <<key, expression>>
Object(fields) == [k |-> "Object", fields |-> fields]
TypeOf(e) == [k |-> "TypeOf", e |-> e]

Assign(name, e) == [k |-> "Assign", name |-> name, e |-> e]
BareExp(e) == [k |-> "BareExp", e |-> e]
Decl(name, e) == [k |-> "Decl", name |-> name, e |-> e]
Empty == [k |-> "Empty"]
If(c, t) == [k |-> "If", c |-> c, t |-> t, hasElse |-> FALSE, e |-> Empty]
IfElse(c, t, e) == [k |-> "If", c |-> c, t |-> t, hasElse |-> TRUE, e |-> e]
Ret(e) == [k |-> "Ret", e |-> e]
SeqStmt(s1, s2) == [k |-> "Seq", s1 |-> s1, s2 |-> s2]
Throw(e) == [k |-> "Throw", e |-> e]
Try == [k |-> "Try"]
While(c, b) == [k |-> "While", c |-> c, b |-> b]

----------------------------------------------------------------------------
(* Ghost events of one evaluation, in the order the code reaches them *)

\* eval_stmt was entered for a statement of this kind
StmtEvent(s) == [ev |-> "stmt", name |-> s.k, ok |-> TRUE, id |-> 0]

\* eval_exp was entered for an expression of this kind
ExpEvent(e) == [ev |-> "exp", name |-> e.k, ok |-> TRUE, id |-> 0]

\* a Ret statement has produced its return signal
RetEvent(val) == [ev |-> "ret", name |-> "", ok |-> TRUE, id |-> 0, val |-> val]

\* a Throw statement has evaluated the value it throws
ThrowEvent(val) ==
    [ev |-> "throw", name |-> "", ok |-> TRUE, id |-> 0, val |-> val]

\* a function body is about to run: the call scope as the parameter loop
\* left it, the callee's parameters and the evaluated arguments
CallEvent(st, fn, args) ==
    [ev |-> "call", name |-> fn.name, ok |-> TRUE, id |-> Len(st.scopes),
     frame |-> st.scopes[Len(st.scopes)], params |-> fn.params,
     args |-> args]

\* an iteration of a While has evaluated its body: v of `let (_, v) = ..`
BodyEvent(s, v) ==
    [ev |-> "body", name |-> "", ok |-> TRUE, id |-> 0, loop |-> s, ret |-> v]

\* the function body has been evaluated
ExitEvent == [ev |-> "exit", name |-> "", ok |-> TRUE, id |-> 0]

----------------------------------------------------------------------------
(* eval_exp and eval_stmt *)
(* A value that comes out of a recursive evaluation is handed on as the    *)
(* argument of a local operator, one per step of the Rust code.            *)

RECURSIVE eval_stmt(_, _), eval_exp(_, _), eval_args(_, _, _),
          eval_fields(_, _, _), bind_params(_, _, _), eval_while(_, _, _, _)

\* eval_float_post_op! / eval_float_pre_op!: load the variable the operand
\* names, store the new number back under the same binding, and yield the
\* old (post) or the new (pre) value
eval_float_op(e, delta, post, st) ==
    IF e.k # "Var" THEN Err(st, UnimplementedError, NoValue)
    ELSE LET l == Release(Load(borrow(st), Binding(e.name)))
         IN IF ~l.ok THEN Err(l.st, ReferenceError, NoValue)
            ELSE IF l.var.t.tag # "JsNum" THEN Err(l.st, TypeError, NoValue)
            ELSE LET old == l.var
                     new == [old EXCEPT !.t = JsNum(old.t.num + delta)]
                     w == Release(StoreVar(borrow_mut(l.st), new, l.ptr))
                 IN IF ~w.ok THEN Err(w.st, GcError, NoValue)
                    ELSE Ok(w.st, Pair(IF post THEN old ELSE new, NoPtr),
                            NoRet)

\* the four arms with the post-decrement arm given the increment's step
inc_dec_op_postdec_adds(k) ==
    CASE k = "PostDec" -> [delta |-> 1, post |-> TRUE]
      [] k = "PostInc" -> [delta |-> 1, post |-> TRUE]
      [] k = "PreDec" -> [delta |-> 0 - 1, post |-> FALSE]
      [] k = "PreInc" -> [delta |-> 1, post |-> FALSE]

\* the four increment/decrement arms: the step and whether the old value
\* is the result
inc_dec_op(k) ==
    CASE k = "PostDec" -> [delta |-> 0 - 1, post |-> TRUE]
      [] k = "PostInc" -> [delta |-> 1, post |-> TRUE]
      [] k = "PreDec" -> [delta |-> 0 - 1, post |-> FALSE]
      [] k = "PreInc" -> [delta |-> 1, post |-> FALSE]

\* the argument loop of Call: every argument, in order, before the callee
\* is looked at
eval_args(exps, st, acc) ==
    LET Next1(r) ==
            IF r.out # "Ok"
            THEN [out |-> r.out, vals |-> acc, st |-> r.st, fail |-> r]
            ELSE eval_args(Tail(exps), r.st, Append(acc, r.val))
    IN IF exps = <<>>
       THEN [out |-> "Ok", vals |-> acc, st |-> st, fail |-> Diverge(st)]
       ELSE Next1(eval_exp(Head(exps), st))

\* the match on fun_ptr: the JsFnStruct to run, or the result to return
resolve_callable(fun_binding, fun_ptr, args, st) ==
    CASE fun_ptr.k = "JsFn" -> [run |-> TRUE, fn |-> fun_ptr, st |-> st]
      [] fun_ptr.k = "NativeFn" ->
            [run |-> FALSE,
             r |-> OkScalar(Emit(st, [ev |-> "native", name |-> "",
                                      ok |-> TRUE, id |-> Len(st.scopes)]),
                            JsUndef)]
      [] fun_ptr.k = "None" ->
            LET l == Release(Load(borrow(st), fun_binding.binding))
            IN IF l.ok /\ l.ptr.k = "JsFn"
               THEN [run |-> TRUE, fn |-> l.ptr, st |-> l.st]
               ELSE IF l.ok
               THEN [run |-> FALSE, r |-> Err(l.st, TypeError, NoValue)]
               ELSE [run |-> FALSE, r |-> Err(l.st, ReferenceError, NoValue)]
      [] OTHER -> [run |-> FALSE, r |-> Err(st, TypeError, NoValue)]

\* the match on js_fn_struct.name: a call scope for a named function, a
\* closure scope keyed by the callee's identity for an anonymous one
push_call_scope(fun_binding, fn, st) ==
    IF fn.name # ""
    THEN [ok |-> TRUE, st |-> Emit(PushScope(borrow_mut(st)), ReleaseEvent)]
    ELSE Release(PushClosureScope(borrow_mut(st), fun_binding.unique))

\* the parameter loop taking an argument that is not there: a failure once
\* the arguments have run out
bind_params_needs_args(params, args, st) ==
    IF params = <<>> THEN [ok |-> TRUE, st |-> st]
    ELSE IF args = <<>> THEN [ok |-> FALSE, st |-> st]
    ELSE LET arg == Head(args)
             bound == [arg.var EXCEPT !.binding = Binding(Head(params))]
             Next1(a) == IF ~a.ok THEN a
                         ELSE bind_params(Tail(params), Tail(args), a.st)
         IN Next1(Release(Alloc(borrow_mut(st), bound, arg.ptr)))

\* the parameter loop: each parameter takes the next argument, or
\* undefined once the arguments have run out
bind_params(params, args, st) ==
    IF params = <<>> THEN [ok |-> TRUE, st |-> st]
    ELSE LET undef == Scalar(st, JsUndef)
             arg == IF args = <<>> THEN undef.val ELSE Head(args)
             st1 == IF args = <<>> THEN undef.st ELSE st
             rest == IF args = <<>> THEN <<>> ELSE Tail(args)
             bound == [arg.var EXCEPT !.binding = Binding(Head(params))]
             Next1(a) == IF ~a.ok THEN a
                         ELSE bind_params(Tail(params), rest, a.st)
         IN Next1(Release(Alloc(borrow_mut(st1), bound, arg.ptr)))

\* returning_closure taking any pointer-tagged result for a closure
returning_closure_any_ptr(v) ==
    IF v.some /\ IsPtr(v.v.var.t) THEN v.v.var.unique ELSE 0

\* returning_closure: the identity of a returned function, 0 for None
returning_closure(v) ==
    IF v.some /\ v.v.var.t.tag = "JsPtrFn" THEN v.v.var.unique ELSE 0

\* invoke_fn popping the call scope only when the body returned a value
invoke_fn_keeps_scope(fun_binding, fn, args, st) ==
    LET Popped(v, q) ==
            IF ~q.ok THEN Panic(q.st, "Unable to clear scope for function")
            ELSE Ok(q.st, v.v, NoRet)
        Ran(body) ==
            IF body.out # "Ok"
            THEN Expect(body, "Error running function body")
            ELSE IF ~body.ret.some
            THEN OkScalar(Emit(body.st, ExitEvent), JsUndef)
            ELSE Popped(body.ret,
                        Release(PopScope(borrow_mut(Emit(body.st, ExitEvent)),
                                         returning_closure(body.ret),
                                         FALSE)))
        Bound(b) ==
            IF ~b.ok
            THEN Panic(b.st, "Unable to store function argument in scope")
            ELSE Ran(eval_stmt(fn.stmt, Emit(b.st, CallEvent(b.st, fn, args))))
        Pushed(p) ==
            IF ~p.ok THEN Panic(p.st, "Unable to push closure scope")
            ELSE Bound(bind_params(fn.params, args, p.st))
    IN Pushed(push_call_scope(fun_binding, fn, st))

\* Call, once a JsFnStruct has been selected
invoke_fn(fun_binding, fn, args, st) ==
    LET Popped(v, q) ==
            IF ~q.ok THEN Panic(q.st, "Unable to clear scope for function")
            ELSE IF v.some THEN Ok(q.st, v.v, NoRet)
            ELSE OkScalar(q.st, JsUndef)
        Ran(body) ==
            IF body.out # "Ok"
            THEN Expect(body, "Error running function body")
            ELSE Popped(body.ret,
                        Release(PopScope(borrow_mut(Emit(body.st, ExitEvent)),
                                         returning_closure(body.ret),
                                         FALSE)))
        Bound(b) ==
            IF ~b.ok
            THEN Panic(b.st, "Unable to store function argument in scope")
            ELSE Ran(eval_stmt(fn.stmt, Emit(b.st, CallEvent(b.st, fn, args))))
        Pushed(p) ==
            IF ~p.ok THEN Panic(p.st, "Unable to push closure scope")
            ELSE Bound(bind_params(fn.params, args, p.st))
    IN Pushed(push_call_scope(fun_binding, fn, st))

\* eval_call looking at the callee before it evaluates the arguments
eval_call_resolves_first(e, st) ==
    LET Args(f, c, a) ==
            IF a.out # "Ok" THEN a.fail
            ELSE invoke_fn(f.val.var, c.fn, a.vals, a.st)
        Resolved(f, c) ==
            IF ~c.run THEN c.r
            ELSE Args(f, c, eval_args(e.args, c.st, <<>>))
        Callee(f) ==
            IF f.out # "Ok" THEN f
            ELSE Resolved(f, resolve_callable(f.val.var, f.val.ptr, <<>>,
                                              f.st))
    IN Callee(eval_exp(e.f, st))

eval_call(e, st) ==
    LET Resolved(f, a, c) ==
            IF ~c.run THEN c.r
            ELSE invoke_fn(f.val.var, c.fn, a.vals, c.st)
        Args(f, a) ==
            IF a.out # "Ok" THEN a.fail
            ELSE Resolved(f, a,
                          resolve_callable(f.val.var, f.val.ptr, a.vals, a.st))
        Callee(f) ==
            IF f.out # "Ok" THEN f
            ELSE Args(f, eval_args(e.args, f.st, <<>>))
    IN Callee(eval_exp(e.f, st))

eval_defun(e, st) ==
    LET js_fun == JsFnStruct(e.name, e.params, e.body)
        n == IF e.name # "" THEN JsVarBind(st, e.name, JsPtrFn(e.name))
             ELSE JsVarNew(st, JsPtrFn(""))
        a == Release(Alloc(borrow_mut(n.st), n.var, js_fun))
    IN IF ~a.ok THEN Err(a.st, GcError, NoValue)
       ELSE Ok(a.st, Pair(n.var, js_fun), NoRet)

eval_instance_var(e, st) ==
    LET Instance(i) ==
            IF i.out # "Ok" THEN i
            ELSE IF IsPtr(i.val.var.t) /\ i.val.ptr.k = "JsObj"
            THEN IF e.name \in DOMAIN i.val.ptr.dict
                 THEN Ok(i.st, Pair(i.val.ptr.dict[e.name], NoPtr), NoRet)
                 ELSE OkScalar(i.st, JsUndef)
            ELSE Panic(i.st, "not implemented")
    IN Instance(eval_exp(e.e, st))

\* the field loop of Object: each value in field order, its heap payload
\* dropped
eval_fields(fields, st, dict) ==
    LET Next1(r) ==
            IF r.out # "Ok"
            THEN [out |-> r.out, dict |-> dict, st |-> r.st, fail |-> r]
            ELSE eval_fields(Tail(fields), r.st,
                             (Head(fields)[1] :> r.val.var) @@
                             [x \in (DOMAIN dict) \ {Head(fields)[1]}
                                 |-> dict[x]])
    IN IF fields = <<>>
       THEN [out |-> "Ok", dict |-> dict, st |-> st, fail |-> Diverge(st)]
       ELSE Next1(eval_exp(Head(fields)[2], st))

eval_object(e, st) ==
    LET Fields(f) ==
            IF f.out # "Ok" THEN f.fail
            ELSE LET n == JsVarNew(f.st, JsPtrObj)
                 IN Ok(n.st, Pair(n.var, JsObjStruct(f.dict)), NoRet)
    IN Fields(eval_fields(e.fields, st, [x \in {} |-> NoVar]))

eval_str(e, st) ==
    LET n == JsVarNew(st, JsPtrStr)
        u == Unescape(e.s)
    IN IF ~u.valid THEN Panic(n.st, "Invalid string")
       ELSE Ok(n.st, Pair(n.var, JsStrStruct(u.s)), NoRet)

eval_typeof(e, st) ==
    LET n == JsVarNew(st, JsPtrStr)
        Operand(r) ==
            IF r.out # "Ok" THEN r
            ELSE Ok(r.st, Pair(n.var, JsStrStruct(TypeOfVar(r.val.var))),
                    NoRet)
    IN Operand(eval_exp(e.e, n.st))

eval_var(e, st) ==
    LET l == Release(Load(borrow(st), Binding(e.name)))
    IN IF ~l.ok THEN Panic(l.st, "ReferenceError: {} is not defined")
       ELSE Ok(l.st, Pair(l.var, l.ptr), NoRet)

eval_binexp(e, st) ==
    LET Right(r1, r2) ==
            IF r2.out # "Ok" THEN r2
            ELSE OkScalar(r2.st, eval_binop(e.op, r1.val.var, r2.val.var))
        Left(r1) ==
            IF r1.out # "Ok" THEN r1
            ELSE Right(r1, eval_exp(e.e2, r1.st))
    IN Left(eval_exp(e.e1, st))

eval_sign(e, st) ==
    LET Operand(r) ==
            IF r.out # "Ok" THEN r
            ELSE OkScalar(r.st,
                          IF e.k = "Neg" THEN NegNumber(AsNumber(r.val.var))
                          ELSE AsNumber(r.val.var))
    IN Operand(eval_exp(e.e, st))

eval_exp(e, st0) ==
    LET Match(st) ==
          CASE e.k = "BinExp" -> eval_binexp(e, st)
            [] e.k = "Bool" -> OkScalar(st, JsBool(e.b))
            [] e.k = "Call" -> eval_call(e, st)
            [] e.k = "Defun" -> eval_defun(e, st)
            [] e.k = "InstanceVar" -> eval_instance_var(e, st)
            [] e.k = "Null" -> OkScalar(st, JsNull)
            [] e.k = "Float" -> OkScalar(st, JsNum(e.n))
            [] e.k \in {"Neg", "Pos"} -> eval_sign(e, st)
            [] e.k \in {"PostDec", "PostInc", "PreDec", "PreInc"} ->
                  eval_float_op(e.e, inc_dec_op(e.k).delta,
                                inc_dec_op(e.k).post, st)
            [] e.k = "NewObject" -> Panic(st, "not implemented")
            [] e.k = "Object" -> eval_object(e, st)
            [] e.k = "Str" -> eval_str(e, st)
            [] e.k = "TypeOf" -> eval_typeof(e, st)
            [] e.k = "Undefined" -> OkScalar(st, JsUndef)
            [] e.k = "Var" -> eval_var(e, st)
    IN Match(Emit(st0, ExpEvent(e)))

\* eval_assign with the slot overwritten by the new value itself, renamed:
\* the variable takes the identity of the value assigned to it
eval_assign_new_identity(s, st) ==
    LET Loaded(r, l) ==
            IF ~l.ok THEN Err(l.st, GcError, NoValue)
            ELSE
            LET js_var == [r.val.var EXCEPT !.binding = Binding(s.name)]
                w == Release(StoreVar(borrow_mut(l.st), js_var, r.val.ptr))
            IN IF ~w.ok THEN Err(w.st, GcError, NoValue)
               ELSE Ok(w.st, Pair(js_var, r.val.ptr), NoRet)
        Value(r) ==
            IF r.out # "Ok" THEN r
            ELSE Loaded(r, Release(Load(borrow(r.st), Binding(s.name))))
    IN Value(eval_exp(s.e, st))

eval_assign(s, st) ==
    LET Loaded(r, l) ==
            IF ~l.ok THEN Err(l.st, GcError, NoValue)
            ELSE
            LET new_var == r.val.var
                js_ptr == r.val.ptr
                typed == [l.var EXCEPT !.t = new_var.t]
                old_binding == typed.unique
                d == Deanonymize(l.st, typed, s.name)
                js_var == d.var
                n == Release(RenameClosure(borrow_mut(d.st), old_binding,
                                            js_var.unique))
                w == Release(StoreVar(borrow_mut(n.st), js_var, js_ptr))
            IN IF ~w.ok THEN Err(w.st, GcError, NoValue)
               ELSE Ok(w.st, Pair(js_var, js_ptr), NoRet)
        Value(r) ==
            IF r.out # "Ok" THEN r
            ELSE Loaded(r, Release(Load(borrow(r.st), Binding(s.name))))
    IN Value(eval_exp(s.e, st))

\* eval_decl taking its mutable view of the store before it evaluates the
\* expression, and holding it until the alloc is done
eval_decl_holds_view(s, st) ==
    LET Value(r) ==
            IF r.out # "Ok" THEN r
            ELSE
            LET js_var == [r.val.var EXCEPT !.binding = Binding(s.name)]
                a == Release(Alloc(r.st, js_var, r.val.ptr))
            IN IF ~a.ok THEN Err(a.st, GcError, NoValue)
               ELSE OkScalar(a.st, JsUndef)
    IN Value(eval_exp(s.e, borrow_mut(st)))

\* eval_decl with the result of alloc ignored
eval_decl_ignores_alloc(s, st) ==
    LET Value(r) ==
            IF r.out # "Ok" THEN r
            ELSE
            LET js_var == [r.val.var EXCEPT !.binding = Binding(s.name)]
                n == Release(RenameClosure(borrow_mut(r.st), r.val.var.unique,
                                            js_var.unique))
                a == Release(Alloc(borrow_mut(n.st), js_var, r.val.ptr))
            IN OkScalar(a.st, JsUndef)
    IN Value(eval_exp(s.e, st))

eval_decl(s, st) ==
    LET Value(r) ==
            IF r.out # "Ok" THEN r
            ELSE
            LET old_binding == r.val.var.unique
                js_var == [r.val.var EXCEPT !.binding = Binding(s.name)]
                n == Release(RenameClosure(borrow_mut(r.st), old_binding,
                                            js_var.unique))
                a == Release(Alloc(borrow_mut(n.st), js_var, r.val.ptr))
            IN IF ~a.ok THEN Err(a.st, GcError, NoValue)
               ELSE OkScalar(a.st, JsUndef)
    IN Value(eval_exp(s.e, st))

eval_if(s, st) ==
    LET Cond(c) ==
            IF c.out # "Ok" THEN c
            ELSE IF AsBool(c.val.var) THEN eval_stmt(s.t, c.st)
            ELSE IF s.hasElse THEN eval_stmt(s.e, c.st)
            ELSE OkScalar(c.st, JsUndef)
    IN Cond(eval_exp(s.c, st))

eval_ret(s, st) ==
    LET Value(r) ==
            IF r.out # "Ok" THEN r
            ELSE Ok(Emit(r.st, RetEvent(r.val)), r.val, SomeRet(r.val))
    IN Value(eval_exp(s.e, st))

\* eval_seq giving up on s2 once s1 has produced a return signal
eval_seq_stops_on_return(s, st) ==
    LET First(r1) ==
            IF r1.out # "Ok" \/ r1.ret.some THEN r1
            ELSE eval_stmt(s.s2, r1.st)
    IN First(eval_stmt(s.s1, st))

eval_seq(s, st) ==
    LET First(r1) == IF r1.out # "Ok" THEN r1 ELSE eval_stmt(s.s2, r1.st)
    IN First(eval_stmt(s.s1, st))

eval_throw(s, st) ==
    LET Value(r) ==
            IF r.out # "Ok" THEN r
            ELSE Err(Emit(r.st, ThrowEvent(r.val)), JsVarError, r.val)
    IN Value(eval_exp(s.e, st))

\* the loop of While with ret_val overwritten only by a signal that is there
eval_while_keeps_signal(s, st, ret_val, iter) ==
    LET Body(b) ==
            IF b.out # "Ok" THEN Expect(b, "unwrap on Err")
            ELSE eval_while(s, Emit(b.st, BodyEvent(s, b.ret)),
                            IF b.ret.some THEN b.ret ELSE ret_val, iter + 1)
        Cond(c) ==
            IF c.out # "Ok" THEN Expect(c, "unwrap on Err")
            ELSE IF ~AsBool(c.val.var)
            THEN LET u == Scalar(c.st, JsUndef) IN Ok(u.st, u.val, ret_val)
            ELSE IF iter >= MaxIter THEN Diverge(c.st)
            ELSE Body(eval_stmt(s.b, c.st))
    IN Cond(eval_exp(s.c, st))

\* the loop of While: ret_val is the return signal of the latest iteration
eval_while(s, st, ret_val, iter) ==
    LET Body(b) ==
            IF b.out # "Ok" THEN Expect(b, "unwrap on Err")
            ELSE eval_while(s, Emit(b.st, BodyEvent(s, b.ret)), b.ret,
                            iter + 1)
        Cond(c) ==
            IF c.out # "Ok" THEN Expect(c, "unwrap on Err")
            ELSE IF ~AsBool(c.val.var)
            THEN LET u == Scalar(c.st, JsUndef) IN Ok(u.st, u.val, ret_val)
            ELSE IF iter >= MaxIter THEN Diverge(c.st)
            ELSE Body(eval_stmt(s.b, c.st))
    IN Cond(eval_exp(s.c, st))

eval_bare_exp(s, st) ==
    LET Value(r) == IF r.out # "Ok" THEN r ELSE Ok(r.st, r.val, NoRet)
    IN Value(eval_exp(s.e, st))

eval_stmt(s, st0) ==
    LET Match(st) ==
          CASE s.k = "Assign" -> eval_assign(s, st)
            [] s.k = "BareExp" -> eval_bare_exp(s, st)
            [] s.k = "Decl" -> eval_decl(s, st)
            [] s.k = "If" -> eval_if(s, st)
            [] s.k = "Empty" -> OkScalar(st, JsUndef)
            [] s.k = "Ret" -> eval_ret(s, st)
            [] s.k = "Seq" -> eval_seq(s, st)
            [] s.k = "Throw" -> eval_throw(s, st)
            [] s.k = "Try" -> Panic(st, "not implemented")
            [] s.k = "While" -> eval_while(s, st, NoRet, 0)
    IN Match(Emit(st0, StmtEvent(s)))

\* eval_string, once parse_Stmt has produced the statement: the value of
\* the statement, any error of eval_stmt being a panic
eval_string(s, st) ==
    LET Value(r) == IF r.out = "Ok" THEN Ok(r.st, r.val, NoRet) ELSE r
    IN Value(Expect(eval_stmt(s, st), "Error evaluating statement"))

----------------------------------------------------------------------------
(* The host: one shared store, evaluated against again and again *)

\* the part of the context that is the ScopeManager (and the identity
\* counter), without the ghost log
Store(st) ==
    [scopes |-> st.scopes, closures |-> st.closures, next |-> st.next,
     heapFree |-> st.heapFree]

\* the context an evaluation starts from
Context(store) ==
    [scopes |-> store.scopes, closures |-> store.closures,
     next |-> store.next, heapFree |-> store.heapFree, log |-> <<>>]

\* init_gc(): the global scope alone, nothing retained
InitStore(heap) ==
    [scopes |-> <<EmptyFrame>>, closures |-> [u \in {} |-> EmptyFrame],
     next |-> 1, heapFree |-> heap]

Outcome(entry, s, r) ==
    [entry |-> entry, stmt |-> s, out |-> r.out, err |-> r.err,
     val |-> r.val, ret |-> r.ret, log |-> r.st.log]

Init ==
    /\ \E heap \in (0 .. MaxHeap) \cup {BigHeap} : state = InitStore(heap)
    /\ pre = state
    /\ last = Outcome("none", Empty, OkScalar(Context(state), JsUndef))
    /\ steps = 0
    /\ halted = FALSE

Finish(entry, s, r) ==
    /\ state' = Store(r.st)
    /\ pre' = state
    /\ last' = Outcome(entry, s, r)
    /\ steps' = steps + 1
    /\ halted' = (r.out # "Ok" /\ r.out # "Err")

\* the host calls eval_stmt on a statement of progs
EvalStmt(progs) ==
    /\ ~halted
    /\ steps < MaxSteps
    /\ \E s \in progs : Finish("eval_stmt", s, eval_stmt(s, Context(state)))

\* the host calls eval_string on source that parses to a statement of progs
EvalString(progs) ==
    /\ ~halted
    /\ steps < MaxSteps
    /\ \E s \in progs : Finish("eval_string", s, eval_string(s, Context(state)))

\* the host puts a native function in the store under the name log, as it
\* does for its builtins before it evaluates anything that calls them
AllocNative ==
    /\ ~halted
    /\ steps < MaxSteps
    /\ LET n == JsVarBind(Context(state), "log", JsPtrNative)
           a == Alloc(n.st, n.var, NativeFn)
       IN Finish("alloc_native", Empty,
                 IF a.ok THEN OkScalar(a.st, JsUndef)
                 ELSE Err(a.st, GcError, NoValue))

----------------------------------------------------------------------------
(* Programs the host evaluates, and the specifications *)

\* what the tests hand to eval_string, and a reference to an unbound name
StringProgs ==
    {BareExp(Float(5)), BareExp(Undefined),
     BareExp(BinExp(Float(2), "Plus", Float(4))),
     BareExp(BinExp(Float(2), "Minus", Float(4))),
     BareExp(Var("zz"))}

\* declarations, assignments and reads of variables
VarExps ==
    {Float(1), Float(2), Bool(TRUE), Str("hi"), Defun("", <<>>, Empty),
     Object(<<<<"k", Float(1)>>>>), PostInc(Var("a")), Var("a")}

VarProgs ==
    {Decl("a", e) : e \in VarExps} \cup {Assign("a", e) : e \in VarExps}
    \cup {Decl("b", Float(1)), BareExp(Var("a")), BareExp(Var("b"))}

NextVars == EvalStmt(VarProgs) \/ EvalString(StringProgs)

SpecVars == Init /\ [][NextVars]_vars

\* functions whose bodies return, branch, loop and throw, and calls of them
RetAtoms ==
    {Ret(Float(1)), Ret(Float(2)), Assign("a", Float(0)), Empty,
     Throw(Float(3))}

FunBodies ==
    RetAtoms
    \cup {SeqStmt(x, y) : x \in RetAtoms, y \in RetAtoms}
    \cup {If(Bool(TRUE), Ret(Float(1))),
          SeqStmt(If(Bool(TRUE), Ret(Float(1))), Ret(Float(2))),
          SeqStmt(If(Bool(TRUE), Ret(Float(1))), Assign("a", Float(0))),
          While(Var("a"), SeqStmt(Assign("a", Float(0)), Ret(Float(1)))),
          While(Var("a"), SeqStmt(Ret(Float(1)), Assign("a", Float(0)))),
          Try, BareExp(NewObject(Var("f"), <<>>))}

CallF == BareExp(Call(Var("f"), <<>>))

ControlProgs ==
    {BareExp(Defun("f", <<>>, b)) : b \in FunBodies}
    \cup {CallF, Decl("a", Float(1)),
          Throw(Float(3)), Throw(Str("hi")),
          If(Bool(TRUE), Throw(Float(3))),
          SeqStmt(Throw(Float(3)), Decl("b", Float(1))),
          While(Var("a"), Throw(Float(3))),
          Try, If(Bool(TRUE), Try),
          BareExp(NewObject(Var("f"), <<>>)),
          Decl("b", NewObject(Var("f"), <<>>))}

NextControl == EvalStmt(ControlProgs) \/ EvalString(StringProgs)

SpecControl == Init /\ [][NextControl]_vars

\* a function that returns a closure over its parameter, and the three ways
\* of invoking what it returned
DefMk ==
    BareExp(Defun("mk", <<"x">>, Ret(Defun("", <<>>, Ret(Var("x"))))))

MkCall(v) == Call(Var("mk"), <<Float(v)>>)

CallG == BareExp(Call(Var("g"), <<>>))

Direct(v) == BareExp(Call(MkCall(v), <<>>))

ViaDecl(v) == SeqStmt(Decl("g", MkCall(v)), CallG)

ViaAssign(v) == SeqStmt(Assign("g", MkCall(v)), CallG)

Captured == {1, 2}

ClosureProgs ==
    {DefMk, Decl("g", Float(0)), CallG}
    \cup {Direct(v) : v \in Captured}
    \cup {ViaDecl(v) : v \in Captured}
    \cup {ViaAssign(v) : v \in Captured}
    \cup {Decl("g", MkCall(v)) : v \in Captured}
    \cup {Assign("g", MkCall(v)) : v \in Captured}

NextClosure == EvalStmt(ClosureProgs) \/ EvalString(StringProgs)

SpecClosure == Init /\ [][NextClosure]_vars

\* increments and decrements of a variable, alone and two in a row
IncDecKinds == {"PostDec", "PostInc", "PreDec", "PreInc"}

IncDec(k, name) == BareExp([k |-> k, e |-> Var(name)])

IncDecProgs ==
    {Decl("a", Float(0)), Decl("a", Float(1)), Decl("b", Float(2))}
    \cup {IncDec(k, "a") : k \in IncDecKinds}
    \cup {SeqStmt(IncDec(k1, "a"), IncDec(k2, "a")) :
             k1 \in IncDecKinds, k2 \in IncDecKinds}

NextIncDec == EvalStmt(IncDecProgs) \/ EvalString(StringProgs)

SpecIncDec == Init /\ [][NextIncDec]_vars

\* named functions of zero to two parameters, called with zero to MaxArgs
\* arguments
MaxArgs == 3

ArgAtoms == {Float(1), Str("s")}

ArgLists == UNION {[1 .. n -> ArgAtoms] : n \in 0 .. MaxArgs}

ParamLists == {<<>>, <<"p">>, <<"p", "q">>, <<"q", "p">>}

ParamProgs ==
    {BareExp(Defun("f", ps, Empty)) : ps \in ParamLists}
    \cup {BareExp(Defun("f", <<"p", "q">>, Ret(Var("q"))))}
    \cup {BareExp(Call(Var("f"), as)) : as \in ArgLists}

NextParams == EvalStmt(ParamProgs) \/ EvalString(StringProgs)

SpecParams == Init /\ [][NextParams]_vars

\* calls whose callee is a literal, a variable holding a value that is not
\* a function, a name that is not bound, and a function
CalleeLiterals ==
    {Float(5), Bool(TRUE), Null, Undefined, Str("hi"), Object(<<>>)}

CalleeProgs ==
    {BareExp(Call(c, <<>>)) :
        c \in CalleeLiterals \cup {Var("a"), Var("zz"), Var("f")}}
    \cup {Decl("a", e) : e \in {Float(1), Null, Str("hi"), Object(<<>>)}}
    \cup {BareExp(Defun("f", <<>>, Empty))}

NextCallee == EvalStmt(CalleeProgs) \/ EvalString(StringProgs)

SpecCallee == Init /\ [][NextCallee]_vars

\* sequences of two statements that return, declare, assign, read and throw
SeqAtoms ==
    {Ret(Float(1)), Decl("a", Float(1)), Assign("a", Float(2)),
     Throw(Float(3)), Empty, BareExp(Var("a"))}

SeqProgs ==
    {SeqStmt(x, y) : x \in SeqAtoms, y \in SeqAtoms}
    \cup {SeqStmt(SeqStmt(Ret(Float(1)), Empty), Ret(Float(2))),
          SeqStmt(Ret(Float(1)), SeqStmt(Ret(Float(2)), Empty)),
          Decl("a", Float(0))}

NextSeq == EvalStmt(SeqProgs) \/ EvalString(StringProgs)

SpecSeq == Init /\ [][NextSeq]_vars

\* loops that count a down to zero and return in some of their iterations
CountDown == Assign("a", BinExp(Var("a"), "Minus", Float(1)))

WhileBodies ==
    {CountDown,
     SeqStmt(CountDown, If(Var("a"), Ret(Float(1)))),
     SeqStmt(CountDown, IfElse(Var("a"), Empty, Ret(Float(7)))),
     SeqStmt(CountDown, Ret(Var("a"))),
     SeqStmt(Ret(Float(1)), CountDown)}

WhileProgs ==
    {While(Var("a"), b) : b \in WhileBodies}
    \cup {Decl("a", Float(n)) : n \in 0 .. MaxIter + 1}

NextWhile == EvalStmt(WhileProgs) \/ EvalString(StringProgs)

SpecWhile == Init /\ [][NextWhile]_vars

\* a function f that returns a function, another pointer-tagged value, a
\* scalar or nothing, and the call of it
PopBodies ==
    {Ret(v) : v \in {Defun("", <<>>, Empty), Defun("h", <<>>, Empty),
                     Var("f"), Float(1), Str("hi"), Object(<<>>), Undefined}}
    \cup {Empty, SeqStmt(Ret(Defun("", <<>>, Empty)), Empty)}

PopProgs ==
    {BareExp(Defun("f", <<>>, b)) : b \in PopBodies}
    \cup {BareExp(Call(Var("f"), <<>>))}

NextPop == EvalStmt(PopProgs) \/ EvalString(StringProgs)

SpecPop == Init /\ [][NextPop]_vars

\* expressions whose operands, callee, arguments and fields change the
\* store when they are evaluated
DefInc ==
    BareExp(Defun("inc", <<>>,
                  SeqStmt(Assign("a", BinExp(Var("a"), "Plus", Float(1))),
                          Ret(Var("a")))))

DefId == BareExp(Defun("f", <<"p">>, Ret(Var("p"))))

Operands == {PostInc(Var("a")), Call(Var("inc"), <<>>), Var("a")}

OrderArgs == {PostInc(Var("a")), Var("a")}

OrderProgs ==
    {Decl("a", Float(1)), Decl("b", Float(2)), DefInc, DefId}
    \cup {BareExp(BinExp(x, "Minus", y)) : x \in Operands, y \in Operands}
    \cup {BareExp(Call(c, <<x>>)) :
             c \in {Var("f"), Var("b"), Float(5)}, x \in OrderArgs}
    \cup {BareExp(Call(c, <<x, y>>)) :
             c \in {Var("f"), Var("b")}, x \in OrderArgs, y \in OrderArgs}
    \cup {BareExp(Object(<<<<"k", x>>, <<"j", y>>>>)) :
             x \in OrderArgs, y \in OrderArgs}

NextOrder == EvalStmt(OrderProgs) \/ EvalString(StringProgs)

SpecOrder == Init /\ [][NextOrder]_vars

\* object literals, reads of their fields and the other expressions that
\* yield pointer-tagged values
FieldValues ==
    {Str("hi"), Object(<<>>), Defun("", <<>>, Empty), Float(1)}

Literal(v) == Object(<<<<"k", v>>>>)

ObjProgs ==
    {BareExp(InstanceVar(Literal(v), "k")) : v \in FieldValues}
    \cup {Decl("o", Literal(v)) : v \in FieldValues}
    \cup {BareExp(v) : v \in FieldValues}
    \cup {BareExp(InstanceVar(Var("o"), "k")),
          BareExp(InstanceVar(Var("o"), "z")),
          BareExp(InstanceVar(Float(1), "k")),
          BareExp(InstanceVar(Str("hi"), "k")),
          BareExp(TypeOf(Var("o"))), BareExp(Var("o"))}

NextObj == EvalStmt(ObjProgs) \/ EvalString(StringProgs)

SpecObj == Init /\ [][NextObj]_vars

\* calls of named functions, of closures and of the native function, nested
\* in one another and in the statements that use the store
CallLog(args) == BareExp(Call(Var("log"), args))

CallProgs ==
    {Decl("a", Float(1)), DefId, DefMk, CallG,
     BareExp(Defun("f", <<"p">>, Empty)),
     Decl("g", MkCall(1)), Direct(1),
     Assign("a", Call(Var("f"), <<PostInc(Var("a"))>>)),
     BareExp(Call(Var("f"), <<Call(Var("f"), <<Float(1)>>)>>)),
     BareExp(Call(Var("f"), <<Call(Var("log"), <<>>)>>)),
     CallLog(<<>>), CallLog(<<Var("a"), Call(Var("f"), <<Float(2)>>)>>),
     While(Var("a"), SeqStmt(CountDown, CallLog(<<Var("a")>>))),
     If(Var("a"), Decl("b", Call(Var("f"), <<Var("a")>>))),
     BareExp(Call(Float(5), <<>>)), BareExp(Call(Var("a"), <<>>)),
     BareExp(Call(Str("hi"), <<Call(Var("f"), <<>>)>>))}

NextCalls ==
    EvalStmt(CallProgs) \/ EvalString(StringProgs) \/ AllocNative

SpecCalls == Init /\ [][NextCalls]_vars

\* every program of the model against one store
Progs == VarProgs \cup ControlProgs \cup ClosureProgs \cup IncDecProgs
         \cup ParamProgs \cup CalleeProgs \cup SeqProgs
         \cup WhileProgs \cup PopProgs \cup OrderProgs
         \cup ObjProgs \cup CallProgs

Next == EvalStmt(Progs) \/ EvalString(StringProgs) \/ AllocNative

Spec == Init /\ [][Next]_vars

----------------------------------------------------------------------------
(* Claims *)

\* the last evaluation was a call of eval_stmt on a statement of kind k
LastStmt(k) == last.entry = "eval_stmt" /\ last.stmt.k = k

\* number of eval_exp entries in a log
RECURSIVE ExpCount(_)
ExpCount(log) ==
    IF log = <<>> THEN 0
    ELSE (IF Head(log).ev = "exp" THEN 1 ELSE 0) + ExpCount(Tail(log))

\* C4: after Decl(a, e1) succeeds, Var(a) yields the value of e1; after
\* Assign(a, e2) succeeds, Var(a) yields the value of e2 and the identity
\* stored for a is the one it had before the assignment, at every step of a
\* run of declarations and assignments.
C4_DeclAssignReadBack ==
    LET Check(read, value) ==
            /\ read.out = "Ok"
            /\ read.val.var.t = value.val.var.t
            /\ read.val.ptr = value.val.ptr
            /\ read.val.var.binding = Binding(last.stmt.name)
            /\ last.stmt.k = "Assign" =>
                  read.val.var.unique =
                     Load(Context(pre), Binding(last.stmt.name)).var.unique
    IN (last.out = "Ok" /\ (LastStmt("Decl") \/ LastStmt("Assign"))) =>
          Check(eval_exp(Var(last.stmt.name), Context(state)),
                eval_exp(last.stmt.e, Context(pre)))

\* C4 witness: a second or later statement assigned a function to a
\* variable that held a value of another type
C4_Witness ==
    /\ LastStmt("Assign") /\ last.out = "Ok" /\ steps >= 2
    /\ Load(Context(pre), Binding(last.stmt.name)).var.t #
          Load(Context(state), Binding(last.stmt.name)).var.t
    /\ last.val.ptr.k = "JsFn"

\* C5: Decl(name, expr) evaluates expr once, allocates one new slot under
\* name in the current scope holding expr's value and heap-ref, and yields
\* undefined with no return signal; when the allocation fails it yields a
\* GcError (the store fault) and not a success value.
C5_DeclAllocatesOnce ==
    LET top == Len(state.scopes)
        b == Binding(last.stmt.name)
        Check(r) ==
            r.out = "Ok" =>
              IF r.st.heapFree = 0
              THEN last.out = "Err" /\ last.err = GcError
              ELSE /\ last.out = "Ok"
                   /\ last.val.var.t = JsUndef /\ last.val.ptr = NoPtr
                   /\ last.ret = NoRet
                   /\ ExpCount(last.log) = ExpCount(r.st.log)
                   /\ state.heapFree = r.st.heapFree - 1
                   /\ Len(r.st.scopes) = top
                   /\ DOMAIN state.scopes[top] =
                         DOMAIN r.st.scopes[top] \cup {b}
                   /\ state.scopes[top][b] =
                         Slot([r.val.var EXCEPT !.binding = b], r.val.ptr)
                   /\ \A i \in 1 .. top : \A x \in DOMAIN r.st.scopes[i] :
                         (i # top \/ x # b) =>
                            state.scopes[i][x] = r.st.scopes[i][x]
    IN LastStmt("Decl") => Check(eval_exp(last.stmt.e, Context(pre)))

\* C5 witness: a declaration put a function, with its heap payload, in a
\* scope that already held other slots
C5_Witness ==
    /\ LastStmt("Decl") /\ last.out = "Ok"
    /\ state.scopes[1][Binding(last.stmt.name)].ptr.k = "JsFn"
    /\ Cardinality(DOMAIN state.scopes[1]) >= 3

\* C10: evaluating Var(name) for a name the scope chain does not resolve
\* yields a ReferenceError returned to the caller, the store unchanged.
C10_UnresolvedVarIsReferenceError ==
    (/\ LastStmt("BareExp") /\ last.stmt.e.k = "Var"
     /\ ~Load(Context(pre), Binding(last.stmt.e.name)).ok)
    => (last.out = "Err" /\ last.err = ReferenceError /\ state = pre)

\* the values of the Ret statements executed by the outermost function
\* activation of a log
RECURSIVE OuterRets(_, _)
OuterRets(log, depth) ==
    IF log = <<>> THEN {}
    ELSE LET e == Head(log)
         IN CASE e.ev = "call" -> OuterRets(Tail(log), depth + 1)
              [] e.ev = "exit" -> OuterRets(Tail(log), depth - 1)
              [] e.ev = "ret" /\ depth = 1 ->
                    {e.val} \cup OuterRets(Tail(log), depth)
              [] OTHER -> OuterRets(Tail(log), depth)

\* some event of the log satisfies ev = kind and name = name
HasEvent(log, kind, name) ==
    \E i \in 1 .. Len(log) : log[i].ev = kind /\ log[i].name = name

\* the name of the function of the first activation of a log, "?" if none
FirstCallee(log) ==
    IF \E i \in 1 .. Len(log) : log[i].ev = "call"
    THEN log[CHOOSE i \in 1 .. Len(log) :
                /\ log[i].ev = "call"
                /\ \A j \in 1 .. i - 1 : log[j].ev # "call"].name
    ELSE "?"

\* C1: a call of a named function whose body executed a return statement,
\* wherever in the body, results in the value that statement evaluated;
\* the result is undefined only when no return statement was executed.
C1_ReturnValueIsCallResult ==
    (/\ LastStmt("BareExp") /\ last.stmt.e.k = "Call" /\ last.out = "Ok"
     /\ FirstCallee(last.log) \notin {"?", ""})
    => IF OuterRets(last.log, 0) # {}
       THEN last.val \in OuterRets(last.log, 0)
       ELSE last.val.var.t = JsUndef

\* a statement is entered in an activation that has already executed a Ret;
\* returned holds one flag per open activation
RECURSIVE StmtAfterRet(_, _)
StmtAfterRet(log, returned) ==
    IF log = <<>> THEN FALSE
    ELSE LET e == Head(log)
             n == Len(returned)
         IN CASE e.ev = "call" ->
                    StmtAfterRet(Tail(log), Append(returned, FALSE))
              [] e.ev = "exit" /\ n > 0 ->
                    StmtAfterRet(Tail(log), SubSeq(returned, 1, n - 1))
              [] e.ev = "ret" /\ n > 0 ->
                    StmtAfterRet(Tail(log), [returned EXCEPT ![n] = TRUE])
              [] e.ev = "stmt" /\ n > 0 ->
                    returned[n] \/ StmtAfterRet(Tail(log), returned)
              [] OTHER -> StmtAfterRet(Tail(log), returned)

\* C2: once a Ret statement has been evaluated inside a function body, no
\* later statement of that body is evaluated.
C2_NothingRunsAfterReturn ==
    last.entry = "eval_stmt" => ~StmtAfterRet(last.log, <<>>)

\* index of the first throw event of a log, 0 if none
FirstThrow(log) ==
    IF \E i \in 1 .. Len(log) : log[i].ev = "throw"
    THEN CHOOSE i \in 1 .. Len(log) :
            /\ log[i].ev = "throw"
            /\ \A j \in 1 .. i - 1 : log[j].ev # "throw"
    ELSE 0

\* C8: a Throw evaluated at any depth makes the outermost eval_stmt finish
\* with the JsVar error carrying the value thrown, and nothing is evaluated
\* after the throw.
C8_ThrowSurfacesAsThrownValue ==
    (last.entry = "eval_stmt" /\ FirstThrow(last.log) # 0)
    => /\ last.out = "Err" /\ last.err = JsVarError
       /\ last.val = last.log[FirstThrow(last.log)].val
       /\ \A i \in FirstThrow(last.log) + 1 .. Len(last.log) :
             last.log[i].ev \notin {"stmt", "exp"}

\* C9: evaluating a Try statement or a NewObject expression ends with an
\* UnimplementedError returned to the caller of the evaluator: never a
\* success value, never an abort of the process.
C9_UnsupportedIsReturnedError ==
    (/\ last.entry = "eval_stmt"
     /\ (HasEvent(last.log, "stmt", "Try")
           \/ HasEvent(last.log, "exp", "NewObject")))
    => (last.out = "Err" /\ last.err = UnimplementedError)

\* an allocation failed during the evaluation
AllocFailed(log) ==
    \E i \in 1 .. Len(log) :
        log[i].ev = "store" /\ log[i].name = "alloc" /\ ~log[i].ok

\* C3: a function returned from a call keeps its captured bindings after
\* the call's scope is popped: invoked directly, or after Decl or Assign
\* bound it to a name, it resolves the captured variable to the value it
\* had when the outer call returned.
C3_EscapedClosureKeepsCaptures ==
    \A v \in Captured :
        (/\ last.entry = "eval_stmt"
         /\ last.stmt \in {Direct(v), ViaDecl(v), ViaAssign(v)}
         /\ Load(Context(pre), Binding("mk")).ok
         /\ last.stmt = ViaAssign(v) => Load(Context(pre), Binding("g")).ok
         /\ ~AllocFailed(last.log))
        => (last.out = "Ok" /\ last.val.var.t = JsNum(v))

\* what a statement made of increments and decrements of one numeric
\* variable holding n must leave in it (n) and yield (val)
RECURSIVE IncDecExpected(_, _)
IncDecExpected(s, n) ==
    IF s.k = "Seq"
    THEN IncDecExpected(s.s2, IncDecExpected(s.s1, n).n)
    ELSE LET new == IF s.e.k \in {"PostInc", "PreInc"} THEN n + 1 ELSE n - 1
         IN [n |-> new,
             val |-> IF s.e.k \in {"PostInc", "PostDec"} THEN n ELSE new]

\* C6: on a bound numeric variable holding n, PostInc yields n and PreInc
\* n+1, both leaving n+1; PostDec yields n and PreDec n-1, both leaving
\* n-1; a sequence of them leaves n + (#increments - #decrements); no other
\* binding changes.
C6_IncDecRoundTrip ==
    LET a == Binding("a")
        n == pre.scopes[1][a].var.t.num
        want == IncDecExpected(last.stmt, n)
    IN (/\ last.entry = "eval_stmt"
        /\ last.stmt \in IncDecProgs /\ last.stmt.k # "Decl"
        /\ a \in DOMAIN pre.scopes[1]
        /\ pre.scopes[1][a].var.t.tag = "JsNum")
       => /\ last.out = "Ok"
          /\ last.val.var.t = JsNum(want.val)
          /\ last.val.ptr = NoPtr
          /\ state.scopes =
                [pre.scopes EXCEPT ![1][a].var.t = JsNum(want.n)]

\* C6 witness: two operations in one statement moved a, next to another
\* binding, away from where it was and back
C6_Witness ==
    /\ last.entry = "eval_stmt" /\ last.out = "Ok"
    /\ last.stmt = SeqStmt(IncDec("PostInc", "a"), IncDec("PreDec", "a"))
    /\ Binding("b") \in DOMAIN state.scopes[1]
    /\ state.scopes[1][Binding("a")].var.t = JsNum(1)
    /\ last.val.var.t = JsNum(1)

\* the call events of a log
CallEvents(log) == {i \in 1 .. Len(log) : log[i].ev = "call"}

Min(x, y) == IF x <= y THEN x ELSE y

\* C7: a call of a function of parameters p1..pn with arguments a1..am
\* binds pi to the value of ai for i <= min(n, m) and to undefined for
\* m < i <= n, ignores the arguments beyond n, names each bound value after
\* its parameter, and does not fail because m < n.
C7_ParametersBound ==
    /\ \A i \in CallEvents(last.log) :
          LET c == last.log[i]
              n == Len(c.params)
              m == Len(c.args)
          IN /\ DOMAIN c.frame = {Binding(c.params[j]) : j \in 1 .. n}
             /\ \A j \in 1 .. n :
                   LET slot == c.frame[Binding(c.params[j])]
                   IN /\ slot.var.binding = Binding(c.params[j])
                      /\ IF j <= m
                         THEN /\ slot.var.t = c.args[j].var.t
                              /\ slot.var.unique = c.args[j].var.unique
                              /\ slot.ptr = c.args[j].ptr
                         ELSE slot.var.t = JsUndef /\ slot.ptr = NoPtr
    /\ (/\ LastStmt("BareExp") /\ last.stmt.e.k = "Call"
        /\ Load(Context(pre), Binding("f")).ok
        /\ ~AllocFailed(last.log))
       => (last.out = "Ok" /\ CallEvents(last.log) # {})

\* C7 witness: a function of two parameters was called with one argument
\* and ran with the second parameter undefined
C7_Witness ==
    /\ LastStmt("BareExp") /\ last.stmt.e.k = "Call" /\ last.out = "Ok"
    /\ Len(last.stmt.e.args) = 1
    /\ \E i \in CallEvents(last.log) :
          /\ Len(last.log[i].params) = 2
          /\ last.log[i].frame[Binding(last.log[i].params[2])].var.t = JsUndef
    /\ last.val.var.t = JsUndef

\* a scope was pushed during the evaluation
ScopePushed(log) ==
    \E i \in 1 .. Len(log) :
        /\ log[i].ev = "store"
        /\ log[i].name \in {"push_scope", "push_closure_scope"}

\* C11: calling a value that is not a function (a literal, or a variable
\* holding a number, null, a string or an object) yields a TypeError; a
\* ReferenceError is yielded only when the callee is a name that is not
\* bound; in both cases no call scope has been pushed.
C11_NonFunctionCallIsTypeError ==
    LET c == last.stmt.e.f
        l == Load(Context(pre), Binding(IF c.k = "Var" THEN c.name ELSE ""))
        unbound == c.k = "Var" /\ ~l.ok
        nonfn == \/ c \in CalleeLiterals
                 \/ c.k = "Var" /\ l.ok /\ l.var.t.tag # "JsPtrFn"
    IN (LastStmt("BareExp") /\ last.stmt.e.k = "Call") =>
          /\ nonfn => /\ last.out = "Err" /\ last.err = TypeError
                      /\ ~ScopePushed(last.log)
          /\ unbound => /\ last.out = "Err" /\ last.err = ReferenceError
                        /\ ~ScopePushed(last.log)
          /\ (last.out = "Err" /\ last.err = ReferenceError) => unbound

\* the store reported a failure at position i of a log
StoreFailed(log, i) == log[i].ev \in {"store", "pop_scope"} /\ ~log[i].ok

\* C12: every failure the store reports during the evaluation of a statement
\* (load, store, alloc, push_closure_scope, pop_scope, rename_closure) ends
\* the evaluation and is returned as a GcError by the outermost eval_stmt:
\* none is discarded and nothing is evaluated after one.
C12_StoreFailureIsStoreFault ==
    last.entry = "eval_stmt" =>
       \A i \in 1 .. Len(last.log) :
          StoreFailed(last.log, i) =>
             /\ last.out = "Err" /\ last.err = GcError
             /\ \A j \in i + 1 .. Len(last.log) :
                   last.log[j].ev \notin {"stmt", "exp", "store", "pop_scope"}

\* C13: Seq(s1, s2) evaluates s1 to completion, then evaluates s2 whenever
\* s1 did not fail, a return signal of s1 notwithstanding, and yields s2's
\* result and return signal, those of s1 being discarded; when s1 fails,
\* s2 is not evaluated.
C13_SeqYieldsSecond ==
    LET Same(r) ==
            /\ last.out = r.out /\ last.err = r.err
            /\ last.val = r.val /\ last.ret = r.ret
            /\ Tail(last.log) = r.st.log
            /\ state = Store(r.st)
        First(r1) ==
            IF r1.out = "Ok" THEN Same(eval_stmt(last.stmt.s2, r1.st))
            ELSE Same(r1)
    IN LastStmt("Seq") => First(eval_stmt(last.stmt.s1, Context(pre)))

\* C13 witness: a sequence whose first statement returned went on to
\* assign in its second, and finished with no return signal
C13_Witness ==
    /\ LastStmt("Seq") /\ last.out = "Ok"
    /\ last.stmt.s1.k = "Ret" /\ last.stmt.s2.k = "Assign"
    /\ last.ret = NoRet
    /\ state # pre
    /\ \E i \in 1 .. Len(last.log) : last.log[i].ev = "ret"

\* the return signals the iterations of loop s produced, in order
BodySignals(log, s) ==
    LET bodies == SelectSeq(log, LAMBDA e : e.ev = "body" /\ e.loop = s)
    IN [i \in 1 .. Len(bodies) |-> bodies[i].ret]

\* the last signal of a sequence of signals that is there, NoRet if none is
RECURSIVE LatestSignal(_)
LatestSignal(sigs) ==
    IF sigs = <<>> THEN NoRet
    ELSE IF sigs[Len(sigs)].some THEN sigs[Len(sigs)]
    ELSE LatestSignal(SubSeq(sigs, 1, Len(sigs) - 1))

\* a While statement ran to the end: undefined is its value and its
\* condition is false
WhileDone ==
    /\ LastStmt("While") /\ last.out = "Ok"
    /\ last.val.var.t = JsUndef /\ last.val.ptr = NoPtr

PopEvents(log) == {i \in 1 .. Len(log) : log[i].ev = "pop_scope"}

\* the last pop_scope call of a log: that of the outermost call
LastPop(log) ==
    log[CHOOSE i \in PopEvents(log) : \A j \in PopEvents(log) : j <= i]

IsPrefix(p, log) == Len(p) <= Len(log) /\ SubSeq(log, 1, Len(p)) = p

\* the expressions of exps evaluated one after the other from st, each to
\* completion, stopping at the first that fails
RECURSIVE EvalInOrder(_, _, _)
EvalInOrder(exps, st, vals) ==
    LET Then(r) ==
            IF r.out # "Ok"
            THEN [ok |-> FALSE, out |-> r.out, st |-> r.st, vals |-> vals]
            ELSE EvalInOrder(Tail(exps), r.st, Append(vals, r.val))
    IN IF exps = <<>>
       THEN [ok |-> TRUE, out |-> "Ok", st |-> st, vals |-> vals]
       ELSE Then(eval_exp(Head(exps), st))

\* the sub-expressions of a BinExp, a Call or an Object in source order
SubExps(e) ==
    CASE e.k = "BinExp" -> <<e.e1, e.e2>>
      [] e.k = "Call" -> <<e.f>> \o e.args
      [] e.k = "Object" -> [i \in 1 .. Len(e.fields) |-> e.fields[i][2]]

\* C16: sub-expressions are evaluated left to right and to completion: the
\* effects of e1 come before those of e2 and both before the operator is
\* applied; the callee comes first, then every argument in order, before
\* any scope is pushed and also when the callee is not callable or takes
\* fewer parameters; the field values of an Object come in field order.
C16_LeftToRight ==
    LET e == last.stmt.e
        Check(o) ==
            /\ IsPrefix(<<StmtEvent(last.stmt), ExpEvent(e)>> \o o.st.log,
                        last.log)
            /\ ~o.ok => last.out = o.out /\ state = Store(o.st)
            /\ (o.ok /\ e.k = "BinExp") =>
                  /\ last.out = "Ok"
                  /\ last.val.var.t =
                        eval_binop(e.op, o.vals[1].var, o.vals[2].var)
                  /\ state.scopes = o.st.scopes
            /\ (o.ok /\ e.k = "Object") =>
                  /\ last.out = "Ok"
                  /\ \A i \in 1 .. Len(e.fields) :
                        last.val.ptr.dict[e.fields[i][1]] = o.vals[i].var
                  /\ state.scopes = o.st.scopes
            /\ (o.ok /\ e.k = "Call" /\ last.out = "Err") =>
                  /\ ~ScopePushed(SubSeq(last.log, Len(o.st.log) + 3,
                                         Len(last.log)))
                  /\ state.scopes = o.st.scopes
    IN (LastStmt("BareExp") /\ e.k \in {"BinExp", "Call", "Object"})
          => Check(EvalInOrder(SubExps(e), Context(pre), <<>>))

\* C16 witness: a call of a value that is not a function failed after its
\* two arguments had changed the store
C16_Witness ==
    /\ LastStmt("BareExp") /\ last.stmt.e.k = "Call"
    /\ Len(last.stmt.e.args) = 2
    /\ last.out = "Err" /\ last.err = TypeError
    /\ Load(Context(pre), Binding("a")).ok
    /\ Load(Context(state), Binding("a")).var.t.num =
          Load(Context(pre), Binding("a")).var.t.num + 2

\* the heap payload that goes with a pointer tag
PayloadOf(t) ==
    CASE t.tag = "JsPtrFn" -> "JsFn"
      [] t.tag = "JsPtrStr" -> "JsStr"
      [] t.tag = "JsPtrObj" -> "JsObj"
      [] OTHER -> "None"

\* C17: every pointer-tagged value eval_exp returns is paired with its heap
\* payload, unless the expression is the lookup of a name; in particular a
\* string, object or function read through InstanceVar from an object
\* literal comes with its payload.
C17_PointerHasPayload ==
    (/\ LastStmt("BareExp") /\ last.out = "Ok"
     /\ IsPtr(last.val.var.t)
     /\ last.stmt.e.k # "Var")
    => last.val.ptr.k = PayloadOf(last.val.var.t)

\* reading a log from the left with the view of the store that is held
\* ("" for none): a view is taken while one is held, or eval_stmt, eval_exp
\* or a native function is entered while one is held
RECURSIVE ViewHeldAcross(_, _)
ViewHeldAcross(log, held) ==
    IF log = <<>> THEN FALSE
    ELSE LET e == Head(log)
         IN CASE e.ev = "borrow" ->
                    held # "" \/ ViewHeldAcross(Tail(log), e.name)
              [] e.ev = "release" -> ViewHeldAcross(Tail(log), "")
              [] e.ev \in {"stmt", "exp", "native"} ->
                    held # "" \/ ViewHeldAcross(Tail(log), held)
              [] OTHER -> ViewHeldAcross(Tail(log), held)

\* C18: at every moment of an evaluation at most one view of the shared
\* store is held, and none is held across a recursive call of eval_stmt or
\* eval_exp or across the call of a native function, so that RefCell never
\* finds the store already borrowed.
C18_NoViewAcrossCalls == ~ViewHeldAcross(last.log, "")

\* C18 witness: an evaluation that went into a function body and called
\* the native function took mutable views of the store on the way
C18_Witness ==
    /\ last.entry = "eval_stmt" /\ last.out = "Ok"
    /\ HasEvent(last.log, "native", "")
    /\ CallEvents(last.log) # {}
    /\ HasEvent(last.log, "borrow", "borrow_mut")
    /\ HasEvent(last.log, "borrow", "borrow")

\* the positions of the scopes pushed in a log
PushEvents(log) ==
    {i \in 1 .. Len(log) :
        /\ log[i].ev = "store" /\ log[i].ok
        /\ log[i].name \in {"push_scope", "push_closure_scope"}}

\* the push that opened the scope of the function body entered at i
PushOf(log, i) ==
    log[CHOOSE p \in PushEvents(log) :
           p < i /\ \A q \in PushEvents(log) : q < i => q <= p]

\* C19: every call that selects a function pushes one scope, push_scope for
\* a function with a name and push_closure_scope keyed by the callee's
\* identity for one without, and pops one before it returns, so that the
\* scope depth after a statement that completed is the depth before it; a
\* native call and a call that fails in callee resolution push and pop
\* nothing, and nothing but a call pushes or pops.
C19_ScopeBalance ==
    LET log == last.log
    IN /\ (last.entry = "eval_stmt" /\ last.out = "Ok")
             => Len(state.scopes) = Len(pre.scopes)
       /\ (last.entry = "eval_stmt" /\ last.out \in {"Ok", "Err"})
             => /\ Cardinality(PushEvents(log)) = Cardinality(CallEvents(log))
                /\ Cardinality(PopEvents(log)) = Cardinality(CallEvents(log))
                /\ \A i \in PopEvents(log) : log[i].ok
       /\ \A i \in CallEvents(log) :
             /\ \E p \in PushEvents(log) : p < i
             /\ PushOf(log, i).name =
                   IF log[i].name # "" THEN "push_scope"
                   ELSE "push_closure_scope"
       /\ (last.stmt = CallG /\ CallEvents(log) # {})
             => PushOf(log, Len(log) + 1).id =
                   Load(Context(pre), Binding("g")).var.unique

\* C19 witness: the call of a closure returned by a call of a named
\* function completed: two scopes pushed, one of each kind, and two popped
C19_Witness ==
    /\ last.entry = "eval_stmt" /\ last.out = "Ok"
    /\ last.stmt = Direct(1)
    /\ Cardinality(PushEvents(last.log)) = 2
    /\ Cardinality(PopEvents(last.log)) = 2
    /\ HasEvent(last.log, "store", "push_scope")
    /\ HasEvent(last.log, "store", "push_closure_scope")
    /\ Len(state.scopes) = 1

====
